---- MODULE Spec2Model ----
(***************************************************************************)
(* Three pipelines that build pivoted summary tables and charts in a       *)
(* spreadsheet file: approach1_xlsxwriter.py (static-chart writer),        *)
(* approach2_openpyxl.py (read/write editor) and approach3_win32com.py     *)
(* (desktop automation).  The record sets, the pivoted views, the sheet    *)
(* layouts and the chart ranges are computed by operators; the calls of    *)
(* the operations, with their file-system, console and application         *)
(* effects, are the actions.                                               *)
(***************************************************************************)
EXTENDS Integers, Sequences, FiniteSets, TLC

\* --------------------------------------------------------------- bounds
\* How many calls one behaviour makes, one after the other.
MaxCalls == 2
\* The number of rows of the table an input file holds.
MaxInputRows == 2

\* ------------------------------------------------------- record sets
\* periods=100 of pd.date_range, the length of every column of the sample.
periods == 100

\* Python's list * n.
RECURSIVE Repeat(_, _)
Repeat(s, n) == IF n <= 0 THEN <<>> ELSE s \o Repeat(s, n - 1)

DaysInMonth(y, m) ==
    IF m = 2
    THEN (IF (y % 4 = 0 /\ y % 100 # 0) \/ y % 400 = 0 THEN 29 ELSE 28)
    ELSE IF m \in {4, 6, 9, 11} THEN 30 ELSE 31

\* One step of freq='D' on a date <<year, month, day>>.
NextDay(d) ==
    IF d[3] < DaysInMonth(d[1], d[2]) THEN <<d[1], d[2], d[3] + 1>>
    ELSE IF d[2] < 12 THEN <<d[1], d[2] + 1, 1>>
    ELSE <<d[1] + 1, 1, 1>>

\* pd.date_range(start, periods=n, freq='D').
RECURSIVE date_range(_, _)
date_range(start, n) ==
    IF n <= 0 THEN <<>> ELSE <<start>> \o date_range(NextDay(start), n - 1)

\* The keys of the dict every create_sample_data builds, in its order.
sample_columns == <<"Date", "Region", "Product", "Sales", "Quantity">>

\* pd.DataFrame(data): a frame keeps the columns' order and their values.
DataFrame(columns, data) == [columns |-> columns, data |-> data]

\* create_sample_data of approach1_xlsxwriter.py.
create_sample_data_xlsxwriter ==
  DataFrame(sample_columns,
    [Date     |-> date_range(<<2024, 1, 1>>, periods),
     Region   |-> Repeat(<<"North", "South", "East", "West">>, 25),
     Product  |-> Repeat(<<"Product A", "Product B", "Product C", "Product D">>, 25),
     Sales    |-> Repeat(<<100, 150, 200, 175, 120, 180, 210, 190>>, 12)
                    \o <<100, 150, 200, 175>>,
     Quantity |-> Repeat(<<10, 15, 20, 18, 12, 16, 22, 19>>, 12)
                    \o <<10, 15, 20, 18>>])

\* create_sample_data of approach2_openpyxl.py.
create_sample_data_openpyxl ==
  DataFrame(sample_columns,
    [Date     |-> date_range(<<2024, 1, 1>>, periods),
     Region   |-> Repeat(<<"North", "South", "East", "West">>, 25),
     Product  |-> Repeat(<<"Product A", "Product B", "Product C", "Product D">>, 25),
     Sales    |-> Repeat(<<100, 150, 200, 175, 120, 180, 210, 190>>, 12)
                    \o <<100, 150, 200, 175>>,
     Quantity |-> Repeat(<<10, 15, 20, 18, 12, 16, 22, 19>>, 12)
                    \o <<10, 15, 20, 18>>])

\* create_sample_data with the last, partial cycle of Sales taken from the
\* wrong half of the cycle.
create_sample_data_wrong_tail ==
  DataFrame(sample_columns,
    [Date     |-> date_range(<<2024, 1, 1>>, periods),
     Region   |-> Repeat(<<"North", "South", "East", "West">>, 25),
     Product  |-> Repeat(<<"Product A", "Product B", "Product C", "Product D">>, 25),
     Sales    |-> Repeat(<<100, 150, 200, 175, 120, 180, 210, 190>>, 12)
                    \o <<120, 180, 210, 190>>,
     Quantity |-> Repeat(<<10, 15, 20, 18, 12, 16, 22, 19>>, 12)
                    \o <<10, 15, 20, 18>>])

\* create_sample_data of approach3_win32com.py.
create_sample_data_win32com ==
  DataFrame(sample_columns,
    [Date     |-> date_range(<<2024, 1, 1>>, periods),
     Region   |-> Repeat(<<"North", "South", "East", "West">>, 25),
     Product  |-> Repeat(<<"Product A", "Product B", "Product C", "Product D">>, 25),
     Sales    |-> Repeat(<<100, 150, 200, 175, 120, 180, 210, 190>>, 12)
                    \o <<100, 150, 200, 175>>,
     Quantity |-> Repeat(<<10, 15, 20, 18, 12, 16, 22, 19>>, 12)
                    \o <<10, 15, 20, 18>>])

\* len(df): the number of rows of a frame.
NRows(df) ==
    IF Len(df.columns) = 0 THEN 0 ELSE Len(df.data[df.columns[1]])

\* The names of a frame's columns.
Cols(df) == {df.columns[k] : k \in 1..Len(df.columns)}

\* ------------------------------------------------------- pivoted views
\* The labels a frame's categorical columns hold, in Python's string order
\* (the order pandas sorts the group keys in).
LabelOrder ==
    <<"East", "North", "Product A", "Product B", "Product C", "Product D",
      "South", "West">>

\* sorted(S) for a set of labels.
Sorted(S) ==
    LET keep(x) == x \in S IN SelectSeq(LabelOrder, keep)

\* The sum of col over those of the rows lo..hi that are in `rows`, added up
\* by halves.
RECURSIVE SumRange(_, _, _, _)
SumRange(col, rows, lo, hi) ==
    IF lo > hi THEN 0
    ELSE IF lo = hi THEN (IF lo \in rows THEN col[lo] ELSE 0)
    ELSE LET mid == (lo + hi) \div 2
         IN  SumRange(col, rows, lo, mid) + SumRange(col, rows, mid + 1, hi)

\* The sum of col over those of its first n rows that are in `rows`.
SumRows(col, rows, n) == SumRange(col, rows, 1, n)

RECURSIVE GCD(_, _)
GCD(a, b) == IF b = 0 THEN a ELSE GCD(b, a % b)

\* A mean that drops the fraction.
Quotient_floor(s, c) == <<s \div c, 1>>

\* A mean is the exact quotient sum/count, kept as <<numerator, denominator>>
\* in lowest terms (the float pandas stores, without the rounding).
Quotient(s, c) ==
    LET g == GCD(s, c) IN <<s \div g, c \div g>>

\* One aggregation function of pandas over the rows of one group.
Agg(aggfunc, col, rows) ==
    IF aggfunc = "sum" THEN SumRows(col, rows, Len(col))
    ELSE IF aggfunc = "count" THEN Cardinality(rows)
    ELSE Quotient(SumRows(col, rows, Len(col)), Cardinality(rows))

\* What a call of pandas leaves when it raises KeyError(key).
KeyError(key) ==
    [raised |-> TRUE, error |-> "KeyError", key |-> key, nlevels |-> 0,
     values |-> "", aggfuncs |-> <<>>, index_name |-> "", columns_name |-> "",
     index |-> <<>>, columns |-> <<>>, cells |-> <<>>]

\* pd.pivot_table(df, values=, index=, columns=, aggfunc=, fill_value=):
\* one row per index label and one column per column label that occurs,
\* both sorted; a cell is the aggregate of its group, and fill_value where
\* the group has no row.  A column name the frame lacks raises KeyError:
\* values first, then the group keys in order.
pivot_table(df, values, index, columns, aggfunc, fill_value) ==
    IF values \notin Cols(df) THEN KeyError(values)
    ELSE IF index \notin Cols(df) THEN KeyError(index)
    ELSE IF columns \notin Cols(df) THEN KeyError(columns)
    ELSE
      LET n == NRows(df)
          groups == {<<df.data[index][i], df.data[columns][i]>> : i \in 1..n}
          idx == Sorted({g[1] : g \in groups})
          cols == Sorted({g[2] : g \in groups})
          rowsOf(g) == {i \in 1..n : df.data[index][i] = g[1] /\ df.data[columns][i] = g[2]}
      IN  [raised |-> FALSE, error |-> "", key |-> "", nlevels |-> 1,
           values |-> values, aggfuncs |-> <<aggfunc>>,
           index_name |-> index, columns_name |-> columns,
           index |-> idx, columns |-> cols,
           cells |-> [g \in {<<idx[i], cols[j]>> :
                               i \in 1..Len(idx), j \in 1..Len(cols)} |->
                        IF g \in groups THEN Agg(aggfunc, df.data[values], rowsOf(g))
                        ELSE fill_value]]

\* pd.pivot_table(df, values=, index=, aggfunc=[...]): one row per index
\* label, one column <<aggfunc, values>> per aggregation function, in the
\* order of the list.
pivot_table_aggs(df, values, index, aggfuncs) ==
    IF values \notin Cols(df) THEN KeyError(values)
    ELSE IF index \notin Cols(df) THEN KeyError(index)
    ELSE
      LET n == NRows(df)
          idx == Sorted({df.data[index][i] : i \in 1..n})
          cols == [k \in 1..Len(aggfuncs) |-> <<aggfuncs[k], values>>]
          rowsOf(r) == {i \in 1..n : df.data[index][i] = r}
      IN  [raised |-> FALSE, error |-> "", key |-> "", nlevels |-> 2,
           values |-> values, aggfuncs |-> aggfuncs,
           index_name |-> index, columns_name |-> "",
           index |-> idx, columns |-> cols,
           cells |-> [g \in {<<idx[i], cols[k]>> :
                               i \in 1..Len(idx), k \in 1..Len(cols)} |->
                        Agg(g[2][1], df.data[values], rowsOf(g[1]))]]

\* View A that comes out empty, instead of raising, when the frame lacks
\* a column it names.
pivot1_silent(df) ==
    IF {"Sales", "Region", "Product"} \subseteq Cols(df)
    THEN pivot_table(df, "Sales", "Region", "Product", "sum", 0)
    ELSE [KeyError("") EXCEPT !.raised = FALSE, !.error = "", !.nlevels = 1,
                              !.index_name = "Region"]

\* View A as approach1_xlsxwriter.py computes it.
pivot1_xlsxwriter(df) == pivot_table(df, "Sales", "Region", "Product", "sum", 0)

\* View B as approach1_xlsxwriter.py computes it.
pivot2_xlsxwriter(df) ==
    pivot_table_aggs(df, "Quantity", "Product", <<"sum", "mean", "count">>)

\* View A that counts the rows of a group instead of adding their Sales.
pivot1_count(df) == pivot_table(df, "Sales", "Region", "Product", "count", 0)

\* View A as approach2_openpyxl.py computes it.
pivot1_openpyxl(df) == pivot_table(df, "Sales", "Region", "Product", "sum", 0)

\* View B as approach2_openpyxl.py computes it.
pivot2_openpyxl(df) ==
    pivot_table_aggs(df, "Quantity", "Product", <<"sum", "mean", "count">>)

\* The first PivotTable of approach3_win32com.py: the fields it places.
pivot_table1_win32com ==
    [rows |-> <<"Region">>, columns |-> <<"Product">>,
     data |-> << <<"Sales", "Sum of Sales", "xlSum">> >>]

\* The second PivotTable of approach3_win32com.py: the fields it places.
pivot_table2_win32com ==
    [rows |-> <<"Product">>, columns |-> <<>>,
     data |-> << <<"Quantity", "Sum of Quantity", "xlSum">>,
                 <<"Quantity", "Average Quantity", "xlAverage">> >>]

\* ------------------------------------------- sheets of the static writer
\* The header cell of column j at level l (0-based).  Above the innermost
\* level a run of columns that agree down to level l is one merged cell,
\* held by the first cell of the run; the innermost level repeats its labels.
HeaderCell(pv, l, j) ==
    LET lab(k) == IF pv.nlevels = 1 THEN pv.columns[k] ELSE pv.columns[k][l + 1]
    IN  IF /\ j > 1
           /\ l + 1 < pv.nlevels
           /\ \A m \in 1..(l + 1) : pv.columns[j][m] = pv.columns[j - 1][m]
        THEN [kind |-> "merged", v |-> lab(j)]
        ELSE [kind |-> "header", v |-> lab(j)]

\* The first sheet row (0-based) that holds a row of the view: under the
\* header row, or, with several header levels, under them and the row that
\* holds the index name.
FirstDataRow(pv) == IF pv.nlevels = 1 THEN 1 ELSE pv.nlevels + 1

\* DataFrame.to_excel(writer, sheet_name=) of a pivoted view: the cells it
\* writes, by <<row, column>> (0-based).  One header row per column level,
\* column j of the view in sheet column j; the index name in column 0, on
\* the header row of a single-level view and on a row of its own under the
\* headers otherwise; then one row per index label.
to_excel(pv) ==
    LET nr == Len(pv.index)
        nc == Len(pv.columns)
        first == FirstDataRow(pv)
        hdr == {<<l, j>> : l \in 0..(pv.nlevels - 1), j \in 1..nc}
        corner == IF pv.nlevels = 1 THEN {}
                  ELSE {<<l, 0>> : l \in 0..(pv.nlevels - 1)}
        name == {<<first - 1, 0>>}
        labels == {<<first + i - 1, 0>> : i \in 1..nr}
        values == {<<first + i - 1, j>> : i \in 1..nr, j \in 1..nc}
    IN  [p \in hdr \cup corner \cup name \cup labels \cup values |->
           IF p \in name THEN [kind |-> "index_name", v |-> pv.index_name]
           ELSE IF p \in corner THEN [kind |-> "blank", v |-> ""]
           ELSE IF p \in hdr THEN HeaderCell(pv, p[1], p[2])
           ELSE IF p \in labels
                THEN [kind |-> "label", v |-> pv.index[p[1] - first + 1]]
           ELSE [kind |-> "value",
                 v |-> pv.cells[<<pv.index[p[1] - first + 1], pv.columns[p[2]]>>]]]

\* An XlsxWriter range [sheet, first_row, first_col, last_row, last_col].
Range(sheet, first_row, first_col, last_row, last_col) ==
    [sheet |-> sheet, first_row |-> first_row, first_col |-> first_col,
     last_row |-> last_row, last_col |-> last_col]

\* The cells a range covers.
RangeCells(r) ==
    {<<i, j>> : i \in r.first_row..r.last_row, j \in r.first_col..r.last_col}

\* The series chart1 gets: one per column of View A.
chart1_series(pivot1) ==
    LET num_products == Len(pivot1.columns)
        num_regions == Len(pivot1.index)
    IN  [col \in 0..(num_products - 1) |->
           [name |-> Range("Pivot - Sales by Region", 0, col + 1, 0, col + 1),
            categories |-> Range("Pivot - Sales by Region", 1, 0, num_regions, 0),
            values |-> Range("Pivot - Sales by Region", 1, col + 1,
                             num_regions, col + 1)]]

\* The one series of chart2 (bar) over View B.
chart2_series(pivot2) ==
    LET num_products2 == Len(pivot2.index)
    IN  [name |-> "Total Quantity",
         categories |-> Range("Pivot - Product Stats", 1, 0, num_products2, 0),
         values |-> Range("Pivot - Product Stats", 1, 1, num_products2, 1)]

\* The one series of chart3 (pie) over View B.
chart3_series(pivot2) ==
    LET num_products2 == Len(pivot2.index)
    IN  [name |-> "Quantity Distribution",
         categories |-> Range("Pivot - Product Stats", 1, 0, num_products2, 0),
         values |-> Range("Pivot - Product Stats", 1, 1, num_products2, 1)]

\* ------------------------------------------------------------- state
VARIABLES
    WIN32COM_AVAILABLE, \* set once, when approach3_win32com.py is loaded
    files,              \* the file system: path -> document
    call,               \* the operation running (or last run) and its arguments
    pc,                 \* where the running call stands
    ncalls,             \* calls made so far
    effects,            \* what the running call has done so far, in order
    df,                 \* the call's record set
    pivot1,             \* the call's View A
    pivot2,             \* the call's View B
    book,               \* the workbook the call is assembling or editing
    excel,              \* the application: "none", "running", "quit"
    wb,                 \* the workbook handle: "none", "open", "closed", "discarded"
    exc,                \* the exception in flight, or the one the call raised
    outcome,            \* "none", "running", "returned", "raised"
    ret,                \* what the last create_sample_data call returned
    files_at_call       \* the file system as the running call found it

vars ==
    <<WIN32COM_AVAILABLE, files, call, pc, ncalls, effects, df, pivot1, pivot2,
      book, excel, wb, exc, outcome, ret, files_at_call>>

\* The paths the operations use.
input_path == "input.xlsx"
temp_file == "temp_data_for_pivot.xlsx"
output_xlsxwriter == "output_xlsxwriter.xlsx"
output_openpyxl == "output_openpyxl.xlsx"
output_win32com == "output_win32com.xlsx"
updated_win32com == "updated_win32com.xlsx"
updated_openpyxl == "updated_openpyxl.xlsx"

Paths ==
    {input_path, temp_file, output_xlsxwriter, output_openpyxl,
     output_win32com, updated_win32com, updated_openpyxl}

\* A path that holds no file.
NoFile ==
    [exists |-> FALSE, origin |-> "", sheets |-> <<>>,
     table |-> DataFrame(<<>>, <<>>), pivots |-> <<>>, cells |-> <<>>,
     charts |-> <<>>, active |-> 1, more |-> <<>>]

\* A document: its sheets' names in order, the table of its data sheet, and
\* what its pivot sheets hold.  Its first sheet is the active one.
Document(origin, sheets, table, pivots, cells, charts) ==
    [exists |-> TRUE, origin |-> origin, sheets |-> sheets, table |-> table,
     pivots |-> pivots, cells |-> cells, charts |-> charts,
     active |-> 1, more |-> <<>>]

\* A document with one more sheet that holds a table, the sheet at position
\* `active` (1-based) being the one marked active.
WithSheet(doc, sheet, table, active) ==
    [doc EXCEPT !.sheets = Append(@, sheet), !.more = Append(@, table),
                !.active = active]

\* The table on sheet k of an input document: the rows of the sheet, the
\* first row being the header.
SheetTable(doc, k) == IF k = 1 THEN doc.table ELSE doc.more[k - 1]

NoFrame == DataFrame(<<>>, <<>>)
NoPivot == KeyError("")
NoBook == NoFile
NoException == [error |-> "", at |-> ""]
Exception(error, at) == [error |-> error, at |-> at]

\* One thing a call does that the outside can see.
Effect(e, arg) == [e |-> e, arg |-> arg]
Printed(text) == Effect("print", text)

\* The rows the tables of the input files are cut from.
PoolRow(k) ==
    [Date     |-> <<2024, 1, k>>,
     Region   |-> <<"North", "South", "East", "West">>[(((k - 1) \div 2) % 4) + 1],
     Product  |-> <<"Product A", "Product B", "Product C", "Product D">>[((k - 1) % 4) + 1],
     Sales    |-> 10 * k,
     Quantity |-> k]

\* The table of n rows that lacks the columns in `without`.
InputTable(n, without) ==
    LET keep(c) == c \notin without
        cols == SelectSeq(sample_columns, keep)
    IN  DataFrame(cols,
                  [c \in {cols[k] : k \in 1..Len(cols)} |->
                     [i \in 1..n |-> PoolRow(i)[c]]])

\* The complete table of the n rows that follow the first n of the pool.
OtherTable(n) ==
    DataFrame(sample_columns,
              [c \in {sample_columns[k] : k \in 1..Len(sample_columns)} |->
                 [i \in 1..n |-> PoolRow(n + i)[c]]])

\* The input files a behaviour may start with: none; one sheet with a table
\* of MaxInputRows rows that is complete or lacks one column; or two sheets
\* with different complete tables, either of them the active one.
InputFiles ==
    {NoFile} \cup
    {Document("user", <<"Sheet1">>, InputTable(MaxInputRows, without),
              <<>>, <<>>, <<>>) :
       without \in {{}, {"Region"}, {"Product"}, {"Sales"}, {"Quantity"}}} \cup
    {WithSheet(Document("user", <<"Sheet1">>, InputTable(MaxInputRows, {}),
                        <<>>, <<>>, <<>>),
               "Sheet2", OtherTable(MaxInputRows), active) :
       active \in {1, 2}}

\* A file left at an output path by an earlier run of some program.
OldFile == Document("old", <<"Sheet1">>, NoFrame, <<>>, <<>>, <<>>)

Init ==
    /\ WIN32COM_AVAILABLE \in BOOLEAN
    /\ \E inp \in InputFiles, old \in {NoFile, OldFile} :
         files = [p \in Paths |->
                    IF p = input_path THEN inp
                    ELSE IF p = temp_file THEN NoFile
                    ELSE old]
    /\ call = [op |-> "", input_file |-> "", output_file |-> ""]
    /\ pc = "idle"
    /\ ncalls = 0
    /\ effects = IF WIN32COM_AVAILABLE THEN <<>>
                 ELSE <<Printed("pywin32 not installed: pip install pywin32")>>
    /\ df = NoFrame
    /\ pivot1 = NoPivot
    /\ pivot2 = NoPivot
    /\ book = NoBook
    /\ excel = "none"
    /\ wb = "none"
    /\ exc = NoException
    /\ outcome = "none"
    /\ ret = NoFrame
    /\ files_at_call = files

\* A caller starts operation op: the call's locals are fresh.
Enter(op, input_file, output_file, first) ==
    /\ pc \in {"idle", "done"}
    /\ ncalls < MaxCalls
    /\ ncalls' = ncalls + 1
    /\ call' = [op |-> op, input_file |-> input_file, output_file |-> output_file]
    /\ pc' = first
    /\ effects' = <<>>
    /\ df' = NoFrame
    /\ pivot1' = NoPivot
    /\ pivot2' = NoPivot
    /\ book' = NoBook
    /\ excel' = "none"
    /\ wb' = "none"
    /\ exc' = NoException
    /\ outcome' = "running"
    /\ files_at_call' = files
    /\ UNCHANGED <<WIN32COM_AVAILABLE, files, ret>>

\* The call ends by returning.
Return ==
    /\ pc' = "done"
    /\ outcome' = "returned"

\* The call ends with exception e propagating to the caller.
Raise(e) ==
    /\ pc' = "done"
    /\ outcome' = "raised"
    /\ exc' = e

\* An input_file argument: None (written "") or the path of the input file.
InputArgs == {"", input_path}

\* What no step of a call changes.
env == <<WIN32COM_AVAILABLE, call, ncalls, ret, files_at_call>>

\* "if input_file: df = pd.read_excel(input_file) / else: df =
\* create_sample_data(); print(...)": read_excel raises when the path holds
\* no file, and reads the table of the first sheet otherwise.
ReadOrCreate(sample, next) ==
    IF call.input_file # ""
    THEN IF files[call.input_file].exists
         THEN /\ df' = files[call.input_file].table
              /\ effects' = Append(effects, Effect("read", call.input_file))
              /\ pc' = next
              /\ UNCHANGED <<exc, outcome>>
         ELSE /\ Raise(Exception("FileNotFoundError", "read_excel"))
              /\ UNCHANGED <<df, effects>>
    ELSE /\ df' = sample
         /\ effects' = Append(effects,
                         Printed("Using sample data (no input file provided)"))
         /\ pc' = next
         /\ UNCHANGED <<exc, outcome>>

\* ------------------------------------ create_sample_data, called directly
SampleOf(script) ==
    IF script = "approach1_xlsxwriter" THEN create_sample_data_xlsxwriter
    ELSE IF script = "approach2_openpyxl" THEN create_sample_data_openpyxl
    ELSE create_sample_data_win32com

S_Call ==
    \E script \in {"approach1_xlsxwriter", "approach2_openpyxl", "approach3_win32com"} :
        Enter("create_sample_data", script, "", "s_build")

S_Build ==
    /\ pc = "s_build"
    /\ ret' = SampleOf(call.input_file)
    /\ Return
    /\ UNCHANGED <<WIN32COM_AVAILABLE, call, ncalls, files_at_call, files,
                   effects, df, pivot1, pivot2, book, excel, wb, exc>>

\* ------------------------- create_pivot_with_charts (approach1_xlsxwriter)
X_Call ==
    \E i \in InputArgs :
        Enter("create_pivot_with_charts", i, output_xlsxwriter, "x_load")

X_Load ==
    /\ pc = "x_load"
    /\ ReadOrCreate(create_sample_data_xlsxwriter, "x_pivot1")
    /\ UNCHANGED <<env, files, pivot1, pivot2, book, excel, wb>>

X_Pivot1 ==
    /\ pc = "x_pivot1"
    /\ LET p == pivot1_xlsxwriter(df)
       IN  IF p.raised
           THEN Raise(Exception(p.error, p.key)) /\ UNCHANGED pivot1
           ELSE pivot1' = p /\ pc' = "x_pivot2" /\ UNCHANGED <<exc, outcome>>
    /\ UNCHANGED <<env, files, effects, df, pivot2, book, excel, wb>>

X_Pivot2 ==
    /\ pc = "x_pivot2"
    /\ LET p == pivot2_xlsxwriter(df)
       IN  IF p.raised
           THEN Raise(Exception(p.error, p.key)) /\ UNCHANGED pivot2
           ELSE pivot2' = p /\ pc' = "x_write" /\ UNCHANGED <<exc, outcome>>
    /\ UNCHANGED <<env, files, effects, df, pivot1, book, excel, wb>>

\* The workbook the with-block assembles: the raw data, the two views as
\* to_excel lays them out, and the three charts.
xlsxwriter_book(d, p1, p2) ==
    Document("xlsxwriter",
             <<"Raw Data", "Pivot - Sales by Region", "Pivot - Product Stats">>,
             d, <<p1, p2>>, <<to_excel(p1), to_excel(p2)>>,
             <<[type |-> "column", series |-> chart1_series(p1)],
               [type |-> "bar", series |-> <<chart2_series(p2)>>],
               [type |-> "pie", series |-> <<chart3_series(p2)>>]>>)

\* The with-block of pd.ExcelWriter: the file is written when the block
\* ends, or the write fails and the error propagates.
X_Write ==
    /\ pc = "x_write"
    /\ \/ /\ book' = xlsxwriter_book(df, pivot1, pivot2)
          /\ files' = [files EXCEPT ![call.output_file] = book']
          /\ effects' = Append(effects, Effect("write", call.output_file))
          /\ pc' = "x_report"
          /\ UNCHANGED <<exc, outcome>>
       \/ /\ Raise(Exception("OSError", "ExcelWriter"))
          /\ UNCHANGED <<book, files, effects>>
    /\ UNCHANGED <<env, df, pivot1, pivot2, excel, wb>>

X_Report ==
    /\ pc = "x_report"
    /\ effects' = effects \o
         <<Printed("Excel file created successfully"),
           Printed("  - Sheets: Raw Data, Pivot - Sales by Region, Pivot - Product Stats"),
           Printed("  - Charts: Column chart, Bar chart, Pie chart")>>
    /\ Return
    /\ UNCHANGED <<env, files, df, pivot1, pivot2, book, excel, wb, exc>>

\* ---------------------------------- sheets of the read/write editor
\* A cell that holds None.
None == [kind |-> "blank", v |-> ""]

\* MultiIndex.levshape of a view's columns: the number of labels per level.
levshape(pv) ==
    [l \in 1..pv.nlevels |->
       Cardinality({pv.columns[j][l] : j \in 1..Len(pv.columns)})]

\* The product of the first l entries of a shape.
RECURSIVE prod(_, _)
prod(shape, l) == IF l = 0 THEN 1 ELSE shape[l] * prod(shape, l - 1)

\* openpyxl's expand_index(pv.columns, header=True): one row per column
\* level; column j (idx = j - 1) keeps its label on level l when idx is a
\* multiple of depth / (shape[1] * ... * shape[l]) and holds None otherwise.
expand_index(pv) ==
    LET shape == levshape(pv)
        depth == prod(shape, pv.nlevels)
        length(l) == depth \div prod(shape, l)
    IN  [l \in 1..pv.nlevels |->
           [j \in 1..Len(pv.columns) |->
              IF (j - 1) % length(l) # 0 THEN None
              ELSE [kind |-> "header", v |-> pv.columns[j][l]]]]

\* openpyxl's dataframe_to_rows(pv, index=True, header=True): the rows it
\* yields, in order.  One header row per column level, each led by a None
\* for the index column; then a row that holds only the index names; then
\* one row per index label, the label first.
dataframe_to_rows(pv) ==
    LET nc == Len(pv.columns)
        rows == IF pv.nlevels > 1 THEN expand_index(pv)
                ELSE <<[j \in 1..nc |-> [kind |-> "header", v |-> pv.columns[j]]]>>
        header == [l \in 1..Len(rows) |-> <<None>> \o rows[l]]
        names == << <<[kind |-> "index_name", v |-> pv.index_name]>> >>
        body == [i \in 1..Len(pv.index) |->
                   <<[kind |-> "label", v |-> pv.index[i]]>> \o
                   [j \in 1..nc |->
                      [kind |-> "value",
                       v |-> pv.cells[<<pv.index[i], pv.columns[j]>>]]]]
    IN  header \o names \o body

\* "for r in rows: ws.append(r)" on a new sheet: row k of the sequence
\* lands on sheet row k, its cells in columns 1, 2, ...; the cells of the
\* sheet by <<row, column>> (1-based).
append(rows) ==
    [p \in UNION {{<<r, c>> : c \in 1..Len(rows[r])} : r \in 1..Len(rows)} |->
       rows[p[1]][p[2]]]

\* openpyxl.chart.Reference(ws, min_col, min_row, max_col, max_row); an
\* argument left out (written 0) takes the value of its min_ counterpart.
ChartReference(min_col, min_row, max_col, max_row) ==
    [min_col |-> min_col, min_row |-> min_row,
     max_col |-> IF max_col = 0 THEN min_col ELSE max_col,
     max_row |-> IF max_row = 0 THEN min_row ELSE max_row]

\* chart.add_data(ref, titles_from_data=True): one series per column of the
\* reference; the first cell of the column is the series' title and the
\* cells under it are its values.
add_data(ref) ==
    [c \in ref.min_col..ref.max_col |->
       [title |-> <<ref.min_row, c>>,
        values |-> {<<r, c>> : r \in (ref.min_row + 1)..ref.max_row}]]

\* chart.set_categories(ref): the cells the categories are read from.
set_categories(ref) ==
    {<<r, c>> : r \in ref.min_row..ref.max_row, c \in ref.min_col..ref.max_col}

\* chart1 of create_pivot_with_openpyxl, over the View A sheet.
chart1_openpyxl(pv) ==
    LET num_rows == Len(pv.index)
        num_cols == Len(pv.columns)
        data == ChartReference(2, 1, num_cols + 1, num_rows + 1)
        cats == ChartReference(1, 2, 0, num_rows + 1)
    IN  [type |-> "col", series |-> add_data(data),
         categories |-> set_categories(cats)]

\* The pie chart of create_pivot_with_openpyxl, over the View B sheet.
pie_openpyxl(pv) ==
    LET labels == ChartReference(1, 3, 0, Len(pv.index) + 2)
        data == ChartReference(2, 2, 0, Len(pv.index) + 2)
    IN  [type |-> "pie", series |-> add_data(data),
         categories |-> set_categories(labels)]

\* ------------------------ create_pivot_with_openpyxl (approach2_openpyxl)
O_Call ==
    \E i \in InputArgs :
        Enter("create_pivot_with_openpyxl", i, output_openpyxl, "o_load")

\* Read or create the data; then Workbook() with the raw data appended.
O_Load ==
    /\ pc = "o_load"
    /\ ReadOrCreate(create_sample_data_openpyxl, "o_pivot1")
    /\ book' = IF pc' = "o_pivot1"
               THEN Document("openpyxl", <<"Raw Data">>, df', <<>>, <<>>, <<>>)
               ELSE book
    /\ UNCHANGED <<env, files, pivot1, pivot2, excel, wb>>

\* View A and its sheet, with the workbook saved to the output path as
\* soon as the sheet is in it.
O_Pivot1_saving ==
    /\ pc = "o_pivot1"
    /\ LET p == pivot1_openpyxl(df)
       IN  IF p.raised
           THEN Raise(Exception(p.error, p.key)) /\ UNCHANGED <<pivot1, book, files>>
           ELSE /\ pivot1' = p
                /\ book' = [book EXCEPT
                              !.sheets = Append(@, "Pivot - Sales by Region"),
                              !.pivots = Append(@, p),
                              !.cells = Append(@, append(dataframe_to_rows(p))),
                              !.charts = Append(@, chart1_openpyxl(p))]
                /\ files' = [files EXCEPT ![call.output_file] = book']
                /\ pc' = "o_pivot2"
                /\ UNCHANGED <<exc, outcome>>
    /\ UNCHANGED <<env, effects, df, pivot2, excel, wb>>

O_Pivot1 ==
    /\ pc = "o_pivot1"
    /\ LET p == pivot1_openpyxl(df)
       IN  IF p.raised
           THEN Raise(Exception(p.error, p.key)) /\ UNCHANGED <<pivot1, book>>
           ELSE /\ pivot1' = p
                /\ book' = [book EXCEPT
                              !.sheets = Append(@, "Pivot - Sales by Region"),
                              !.pivots = Append(@, p),
                              !.cells = Append(@, append(dataframe_to_rows(p))),
                              !.charts = Append(@, chart1_openpyxl(p))]
                /\ pc' = "o_pivot2"
                /\ UNCHANGED <<exc, outcome>>
    /\ UNCHANGED <<env, files, effects, df, pivot2, excel, wb>>

O_Pivot2 ==
    /\ pc = "o_pivot2"
    /\ LET p == pivot2_openpyxl(df)
       IN  IF p.raised
           THEN Raise(Exception(p.error, p.key)) /\ UNCHANGED <<pivot2, book>>
           ELSE /\ pivot2' = p
                /\ book' = [book EXCEPT
                              !.sheets = Append(@, "Pivot - Product Stats"),
                              !.pivots = Append(@, p),
                              !.cells = Append(@, append(dataframe_to_rows(p))),
                              !.charts = Append(@, pie_openpyxl(p))]
                /\ pc' = "o_save"
                /\ UNCHANGED <<exc, outcome>>
    /\ UNCHANGED <<env, files, effects, df, pivot1, excel, wb>>

\* The "About PivotTables" sheet, then wb.save(output_file).
O_Save ==
    /\ pc = "o_save"
    /\ \/ /\ book' = [book EXCEPT !.sheets = Append(@, "About PivotTables")]
          /\ files' = [files EXCEPT ![call.output_file] = book']
          /\ effects' = Append(effects, Effect("write", call.output_file))
          /\ pc' = "o_report"
          /\ UNCHANGED <<exc, outcome>>
       \/ /\ Raise(Exception("OSError", "wb.save"))
          /\ book' = [book EXCEPT !.sheets = Append(@, "About PivotTables")]
          /\ UNCHANGED <<files, effects>>
    /\ UNCHANGED <<env, df, pivot1, pivot2, excel, wb>>

O_Report ==
    /\ pc = "o_report"
    /\ effects' = effects \o
         <<Printed("Excel file created successfully"),
           Printed("  - Sheets: Raw Data, Pivot - Sales by Region, Pivot - Product Stats, True PivotTable"),
           Printed("  - Charts: Bar chart, Pie chart")>>
    /\ Return
    /\ UNCHANGED <<env, files, df, pivot1, pivot2, book, excel, wb, exc>>

\* ----------------------------- update_existing_excel (approach2_openpyxl)
\* What indexing df.columns past its end leaves: IndexError.
IndexError(position) == [KeyError(position) EXCEPT !.error = "IndexError"]

\* pd.pivot_table(d, values=, index=, aggfunc=, fill_value=) with no
\* columns= and one aggregation function: one row per index label that
\* occurs, sorted, and the one column `values`.
pivot_table_index(d, values, index, aggfunc, fill_value) ==
    IF values \notin Cols(d) THEN KeyError(values)
    ELSE IF index \notin Cols(d) THEN KeyError(index)
    ELSE
      LET n == NRows(d)
          idx == Sorted({d.data[index][i] : i \in 1..n})
          rowsOf(r) == {i \in 1..n : d.data[index][i] = r}
      IN  [raised |-> FALSE, error |-> "", key |-> "", nlevels |-> 1,
           values |-> values, aggfuncs |-> <<aggfunc>>,
           index_name |-> index, columns_name |-> "",
           index |-> idx, columns |-> <<values>>,
           cells |-> [g \in {<<idx[i], values>> : i \in 1..Len(idx)} |->
                        Agg(aggfunc, d.data[values], rowsOf(g[1]))]]

\* The view of update_existing_excel: values=df.columns[3] and
\* index=df.columns[1] (0-based), which raises IndexError on a frame of
\* fewer than four columns.
pivot_update(d) ==
    IF Len(d.columns) < 4 THEN IndexError("3")
    ELSE pivot_table_index(d, d.columns[4], d.columns[2], "sum", 0)

\* The chart of update_existing_excel, over the "New Pivot" sheet.
chart_update(pv) ==
    LET data_ref == ChartReference(2, 1, 0, Len(pv.index) + 1)
        cats_ref == ChartReference(1, 2, 0, Len(pv.index) + 1)
    IN  [type |-> "col", series |-> add_data(data_ref),
         categories |-> set_categories(cats_ref)]

U_Call ==
    Enter("update_existing_excel", input_path, updated_openpyxl, "u_load")

\* load_workbook(input_file), which raises when the path holds no file;
\* then the record set from the rows of wb.active, the first row naming the
\* columns.
U_Load ==
    /\ pc = "u_load"
    /\ IF files[call.input_file].exists
       THEN /\ book' = files[call.input_file]
            /\ df' = SheetTable(book', book'.active)
            /\ effects' = Append(effects, Effect("read", call.input_file))
            /\ pc' = "u_pivot"
            /\ UNCHANGED <<exc, outcome>>
       ELSE /\ Raise(Exception("FileNotFoundError", "load_workbook"))
            /\ UNCHANGED <<book, df, effects>>
    /\ UNCHANGED <<env, files, pivot1, pivot2, excel, wb>>

\* The view, the "New Pivot" sheet created after the sheets the workbook
\* has, its rows and its chart.
U_Pivot ==
    /\ pc = "u_pivot"
    /\ LET p == pivot_update(df)
       IN  IF p.raised
           THEN Raise(Exception(p.error, p.key)) /\ UNCHANGED <<pivot1, book>>
           ELSE /\ pivot1' = p
                /\ book' = [book EXCEPT
                              !.sheets = Append(@, "New Pivot"),
                              !.pivots = Append(@, p),
                              !.cells = Append(@, append(dataframe_to_rows(p))),
                              !.charts = Append(@, chart_update(p))]
                /\ pc' = "u_save"
                /\ UNCHANGED <<exc, outcome>>
    /\ UNCHANGED <<env, files, effects, df, pivot2, excel, wb>>

\* wb.save(output_file).
U_Save ==
    /\ pc = "u_save"
    /\ \/ /\ files' = [files EXCEPT ![call.output_file] =
                         [book EXCEPT !.origin = "openpyxl"]]
          /\ effects' = Append(effects, Effect("write", call.output_file))
          /\ pc' = "u_report"
          /\ UNCHANGED <<exc, outcome>>
       \/ /\ Raise(Exception("OSError", "wb.save"))
          /\ UNCHANGED <<files, effects>>
    /\ UNCHANGED <<env, df, pivot1, pivot2, book, excel, wb>>

U_Report ==
    /\ pc = "u_report"
    /\ effects' = Append(effects, Printed("Updated Excel file saved"))
    /\ Return
    /\ UNCHANGED <<env, files, df, pivot1, pivot2, book, excel, wb, exc>>

\* --------------- create_true_pivot_with_win32com (approach3_win32com)
\* The exception of an automation call that fails.
ComError(at) == Exception("com_error", at)

\* An automation call outside any try block raises: the exception
\* propagates to the caller at once.
Uncaught(at) ==
    /\ Raise(ComError(at))
    /\ effects' = Append(effects, Effect("raise", at))

\* An automation call inside the try block raises: control passes to the
\* except clause with the exception in flight.
Caught(at, handler) ==
    /\ exc' = ComError(at)
    /\ pc' = handler
    /\ effects' = Append(effects, Effect("raise", at))
    /\ UNCHANGED outcome

\* A step inside the try block succeeds and control moves on.
Goes(next) ==
    /\ pc' = next
    /\ UNCHANGED <<exc, outcome>>

W_Call ==
    \E i \in InputArgs :
        Enter("create_true_pivot_with_win32com", i, output_win32com, "w_check")

\* The availability check left out: the call always goes on.
W_Check_unguarded ==
    /\ pc = "w_check"
    /\ Goes("w_load")
    /\ UNCHANGED <<env, files, effects, df, pivot1, pivot2, book, excel, wb>>

\* if not WIN32COM_AVAILABLE: print(...); return
W_Check ==
    /\ pc = "w_check"
    /\ IF ~WIN32COM_AVAILABLE
       THEN /\ effects' = Append(effects,
                 Printed("ERROR: This function requires pywin32 and Excel to be installed."))
            /\ Return
            /\ UNCHANGED exc
       ELSE /\ Goes("w_load")
            /\ UNCHANGED effects
    /\ UNCHANGED <<env, files, df, pivot1, pivot2, book, excel, wb>>

W_Load ==
    /\ pc = "w_load"
    /\ ReadOrCreate(create_sample_data_win32com, "w_temp")
    /\ UNCHANGED <<env, files, pivot1, pivot2, book, excel, wb>>

\* df.to_excel(temp_file, sheet_name='Raw Data', index=False)
W_Temp ==
    /\ pc = "w_temp"
    /\ files' = [files EXCEPT ![temp_file] =
                   Document("pandas", <<"Raw Data">>, df, <<>>, <<>>, <<>>)]
    /\ effects' = Append(effects, Effect("write", temp_file))
    /\ Goes("w_dispatch")
    /\ UNCHANGED <<env, df, pivot1, pivot2, book, excel, wb>>

\* excel = win32.gencache.EnsureDispatch('Excel.Application'), before the try.
W_Dispatch ==
    /\ pc = "w_dispatch"
    /\ \/ /\ excel' = "running"
          /\ effects' = Append(effects, Effect("launch", "Excel.Application"))
          /\ Goes("w_flags")
       \/ /\ Uncaught("EnsureDispatch")
          /\ UNCHANGED excel
    /\ UNCHANGED <<env, files, df, pivot1, pivot2, book, wb>>

\* excel.Visible = False; excel.DisplayAlerts = False, before the try.
W_Flags ==
    /\ pc = "w_flags"
    /\ \/ Goes("w_open") /\ UNCHANGED effects
       \/ Uncaught("Visible")
    /\ UNCHANGED <<env, files, df, pivot1, pivot2, book, excel, wb>>

\* wb = excel.Workbooks.Open(abs_temp_path), the first step of the try.
W_Open ==
    /\ pc = "w_open"
    /\ \/ /\ files[temp_file].exists
          /\ wb' = "open"
          /\ book' = files[temp_file]
          /\ effects' = Append(effects, Effect("open", temp_file))
          /\ Goes("w_range")
       \/ /\ Caught("Workbooks.Open", "w_except")
          /\ UNCHANGED <<wb, book>>
    /\ UNCHANGED <<env, files, df, pivot1, pivot2, excel>>

\* ws_data, last_row, last_col, data_range.
W_Range ==
    /\ pc = "w_range"
    /\ \/ /\ "Raw Data" \in {book.sheets[k] : k \in 1..Len(book.sheets)}
          /\ Goes("w_pivot1")
          /\ UNCHANGED effects
       \/ Caught("Worksheets", "w_except")
    /\ UNCHANGED <<env, files, df, pivot1, pivot2, book, excel, wb>>

\* The fields a PivotTable's configuration names.
FieldsOf(pt) ==
    {pt.rows[k] : k \in 1..Len(pt.rows)}
      \cup {pt.columns[k] : k \in 1..Len(pt.columns)}
      \cup {pt.data[k][1] : k \in 1..Len(pt.data)}

\* Worksheets.Add() with its Name, the PivotCache and the PivotTable with
\* its fields: the new sheet comes before the active sheet and is the
\* active sheet from then on; PivotFields(name) raises for a name the data
\* range has no column of.
AddPivot(b, sheet, pt) ==
    [b EXCEPT !.sheets = SubSeq(@, 1, b.active - 1) \o <<sheet>> \o
                           SubSeq(@, b.active, Len(@)),
              !.pivots = Append(@, pt)]

W_Pivot1 ==
    /\ pc = "w_pivot1"
    /\ \/ /\ FieldsOf(pivot_table1_win32com) \subseteq Cols(book.table)
          /\ book' = AddPivot(book, "Pivot - Sales by Region", pivot_table1_win32com)
          /\ Goes("w_chart1")
          /\ UNCHANGED effects
       \/ /\ Caught("PivotTable1", "w_except")
          /\ UNCHANGED book
    /\ UNCHANGED <<env, files, df, pivot1, pivot2, excel, wb>>

\* chart1 bound to pivot_table1.TableRange2, and its position.
W_Chart1 ==
    /\ pc = "w_chart1"
    /\ \/ /\ book' = [book EXCEPT !.charts =
                        Append(@, [type |-> "xlColumnClustered", source |-> "SalesByRegion"])]
          /\ Goes("w_pivot2")
          /\ UNCHANGED effects
       \/ /\ Caught("Chart1", "w_except")
          /\ UNCHANGED book
    /\ UNCHANGED <<env, files, df, pivot1, pivot2, excel, wb>>

W_Pivot2 ==
    /\ pc = "w_pivot2"
    /\ \/ /\ FieldsOf(pivot_table2_win32com) \subseteq Cols(book.table)
          /\ book' = AddPivot(book, "Pivot - Product Stats", pivot_table2_win32com)
          /\ Goes("w_chart2")
          /\ UNCHANGED effects
       \/ /\ Caught("PivotTable2", "w_except")
          /\ UNCHANGED book
    /\ UNCHANGED <<env, files, df, pivot1, pivot2, excel, wb>>

\* chart2 (pie) bound to pivot_table2.TableRange2, its position and labels.
W_Chart2 ==
    /\ pc = "w_chart2"
    /\ \/ /\ book' = [book EXCEPT !.charts =
                        Append(@, [type |-> "xlPie", source |-> "ProductStats"])]
          /\ Goes("w_summary")
          /\ UNCHANGED effects
       \/ /\ Caught("Chart2", "w_except")
          /\ UNCHANGED book
    /\ UNCHANGED <<env, files, df, pivot1, pivot2, excel, wb>>

\* The Summary sheet, added and moved before the first sheet.
W_Summary ==
    /\ pc = "w_summary"
    /\ \/ /\ book' = [book EXCEPT !.sheets = <<"Summary">> \o @]
          /\ Goes("w_remove_output")
          /\ UNCHANGED effects
       \/ /\ Caught("Summary", "w_except")
          /\ UNCHANGED book
    /\ UNCHANGED <<env, files, df, pivot1, pivot2, excel, wb>>

\* if os.path.exists(abs_output_path): os.remove(abs_output_path)
W_RemoveOutput ==
    /\ pc = "w_remove_output"
    /\ IF files[call.output_file].exists
       THEN /\ files' = [files EXCEPT ![call.output_file] = NoFile]
            /\ effects' = Append(effects, Effect("remove", call.output_file))
       ELSE UNCHANGED <<files, effects>>
    /\ Goes("w_saveas")
    /\ UNCHANGED <<env, df, pivot1, pivot2, book, excel, wb>>

\* wb.SaveAs(abs_output_path)
W_SaveAs ==
    /\ pc = "w_saveas"
    /\ \/ /\ files' = [files EXCEPT ![call.output_file] =
                         [book EXCEPT !.origin = "excel"]]
          /\ effects' = Append(effects, Effect("write", call.output_file))
          /\ Goes("w_close")
       \/ /\ Caught("SaveAs", "w_except")
          /\ UNCHANGED files
    /\ UNCHANGED <<env, df, pivot1, pivot2, book, excel, wb>>

\* wb.Close(), the last step of the try.
W_Close ==
    /\ pc = "w_close"
    /\ \/ /\ wb' = "closed"
          /\ effects' = Append(effects, Effect("close", "wb"))
          /\ Goes("w_finally")
       \/ /\ Caught("Close", "w_except")
          /\ UNCHANGED wb
    /\ UNCHANGED <<env, files, df, pivot1, pivot2, book, excel>>

\* except Exception as e: print(f"ERROR: {e}"); raise
W_Except ==
    /\ pc = "w_except"
    /\ effects' = Append(effects, Printed("ERROR: {e}"))
    /\ Goes("w_finally")
    /\ UNCHANGED <<env, files, df, pivot1, pivot2, book, excel, wb>>

\* What excel.Quit() leaves of the workbook handle: the application ends,
\* and a workbook still open goes with it, unsaved and without a Close.
AfterQuit(w) == IF w = "open" THEN "discarded" ELSE w

\* finally: excel.Quit().  When it raises, its exception replaces the one
\* in flight and the rest of the finally clause is skipped.
W_Quit ==
    /\ pc = "w_finally"
    /\ \/ /\ excel' = "quit"
          /\ wb' = AfterQuit(wb)
          /\ effects' = Append(effects, Effect("quit", "Excel.Application"))
          /\ Goes("w_finally_remove")
       \/ /\ Uncaught("Quit")
          /\ UNCHANGED <<excel, wb>>
    /\ UNCHANGED <<env, files, df, pivot1, pivot2, book>>

\* finally: if os.path.exists(temp_file): os.remove(temp_file); then the
\* exception in flight, if any, propagates.
W_RemoveTemp ==
    /\ pc = "w_finally_remove"
    /\ IF files[temp_file].exists
       THEN /\ files' = [files EXCEPT ![temp_file] = NoFile]
            /\ effects' = Append(effects, Effect("remove", temp_file))
       ELSE UNCHANGED <<files, effects>>
    /\ IF exc # NoException THEN Raise(exc) ELSE Return /\ UNCHANGED exc
    /\ UNCHANGED <<env, df, pivot1, pivot2, book, excel, wb>>

\* -------------------- add_pivot_to_existing_file (approach3_win32com)
A_Call ==
    Enter("add_pivot_to_existing_file", input_path, updated_win32com, "a_check")

\* if not WIN32COM_AVAILABLE: print(...); return
A_Check ==
    /\ pc = "a_check"
    /\ IF ~WIN32COM_AVAILABLE
       THEN /\ effects' = Append(effects,
                 Printed("ERROR: This function requires pywin32 and Excel to be installed."))
            /\ Return
            /\ UNCHANGED exc
       ELSE /\ Goes("a_dispatch")
            /\ UNCHANGED effects
    /\ UNCHANGED <<env, files, df, pivot1, pivot2, book, excel, wb>>

A_Dispatch ==
    /\ pc = "a_dispatch"
    /\ \/ /\ excel' = "running"
          /\ effects' = Append(effects, Effect("launch", "Excel.Application"))
          /\ Goes("a_flags")
       \/ /\ Uncaught("EnsureDispatch")
          /\ UNCHANGED excel
    /\ UNCHANGED <<env, files, df, pivot1, pivot2, book, wb>>

A_Flags ==
    /\ pc = "a_flags"
    /\ \/ Goes("a_open") /\ UNCHANGED effects
       \/ Uncaught("Visible")
    /\ UNCHANGED <<env, files, df, pivot1, pivot2, book, excel, wb>>

\* wb = excel.Workbooks.Open(abs_input_path): raises when there is no file.
A_Open ==
    /\ pc = "a_open"
    /\ \/ /\ files[call.input_file].exists
          /\ wb' = "open"
          /\ book' = files[call.input_file]
          /\ effects' = Append(effects, Effect("open", call.input_file))
          /\ Goes("a_pivot")
       \/ /\ Caught("Workbooks.Open", "a_except")
          /\ UNCHANGED <<wb, book>>
    /\ UNCHANGED <<env, files, df, pivot1, pivot2, excel>>

\* min(a, b) of Python.
Min(a, b) == IF a <= b THEN a ELSE b

\* fields = [PivotFields(i) for i in range(1, min(4, last_col + 1))]; with
\* two fields or more the first is the row field and the second the data
\* field.
new_pivot(table) ==
    LET last_col == Len(table.columns)
        fields == [i \in 1..(Min(4, last_col + 1) - 1) |-> table.columns[i]]
    IN  IF Len(fields) >= 2
        THEN [rows |-> <<fields[1]>>, columns |-> <<>>,
              data |-> << <<fields[2], "", "default">> >>]
        ELSE [rows |-> <<>>, columns |-> <<>>, data |-> <<>>]

\* The data range, the "New PivotTable" sheet, the cache, the table and
\* its fields.
A_Pivot ==
    /\ pc = "a_pivot"
    /\ \/ /\ book' = AddPivot(book, "New PivotTable", new_pivot(book.table))
          /\ Goes("a_saveas")
          /\ UNCHANGED effects
       \/ /\ Caught("PivotTable", "a_except")
          /\ UNCHANGED book
    /\ UNCHANGED <<env, files, df, pivot1, pivot2, excel, wb>>

A_SaveAs ==
    /\ pc = "a_saveas"
    /\ \/ /\ files' = [files EXCEPT ![call.output_file] =
                         [book EXCEPT !.origin = "excel"]]
          /\ effects' = Append(effects, Effect("write", call.output_file))
          /\ Goes("a_close")
       \/ /\ Caught("SaveAs", "a_except")
          /\ UNCHANGED files
    /\ UNCHANGED <<env, df, pivot1, pivot2, book, excel, wb>>

\* wb.Close(), then the message, still inside the try.
A_Close ==
    /\ pc = "a_close"
    /\ \/ /\ wb' = "closed"
          /\ effects' = effects \o
               <<Effect("close", "wb"),
                 Printed("PivotTable added to existing file: {output_file}")>>
          /\ Goes("a_finally")
       \/ /\ Caught("Close", "a_except")
          /\ UNCHANGED wb
    /\ UNCHANGED <<env, files, df, pivot1, pivot2, book, excel>>

A_Except ==
    /\ pc = "a_except"
    /\ effects' = Append(effects, Printed("ERROR: {e}"))
    /\ Goes("a_finally")
    /\ UNCHANGED <<env, files, df, pivot1, pivot2, book, excel, wb>>

\* finally: excel.Quit(); then the exception in flight, if any, propagates.
A_Quit ==
    /\ pc = "a_finally"
    /\ \/ /\ excel' = "quit"
          /\ wb' = AfterQuit(wb)
          /\ effects' = Append(effects, Effect("quit", "Excel.Application"))
          /\ IF exc # NoException THEN Raise(exc) ELSE Return /\ UNCHANGED exc
       \/ /\ Uncaught("Quit")
          /\ UNCHANGED <<excel, wb>>
    /\ UNCHANGED <<env, files, df, pivot1, pivot2, book>>

\* ------------------------------------------------------ specification
Next ==
    \/ S_Call \/ S_Build
    \/ X_Call \/ X_Load \/ X_Pivot1 \/ X_Pivot2 \/ X_Write \/ X_Report
    \/ O_Call \/ O_Load \/ O_Pivot1 \/ O_Pivot2 \/ O_Save \/ O_Report
    \/ U_Call \/ U_Load \/ U_Pivot \/ U_Save \/ U_Report
    \/ W_Call \/ W_Check \/ W_Load \/ W_Temp \/ W_Dispatch \/ W_Flags
    \/ W_Open \/ W_Range \/ W_Pivot1 \/ W_Chart1 \/ W_Pivot2 \/ W_Chart2
    \/ W_Summary \/ W_RemoveOutput \/ W_SaveAs \/ W_Close \/ W_Except
    \/ W_Quit \/ W_RemoveTemp
    \/ A_Call \/ A_Check \/ A_Dispatch \/ A_Flags \/ A_Open \/ A_Pivot
    \/ A_SaveAs \/ A_Close \/ A_Except \/ A_Quit

Spec == Init /\ [][Next]_vars

\* ============================================================== claims
\* ---------------------------------------------------- shared vocabulary
AutomationOps == {"create_true_pivot_with_win32com", "add_pivot_to_existing_file"}
InProcessOps == {"create_pivot_with_charts", "create_pivot_with_openpyxl"}

\* The running call has done effect <<e, arg>>.
HasEffect(e, arg) == \E i \in 1..Len(effects) : effects[i] = Effect(e, arg)

\* The running call has done some effect of kind e.
HasEffectOfKind(e) == \E i \in 1..Len(effects) : effects[i].e = e

\* The call has ended.
Done == pc = "done"

unavailable_message ==
    Printed("ERROR: This function requires pywin32 and Excel to be installed.")

\* C1: in create_true_pivot_with_win32com, once temp_data_for_pivot.xlsx has
\* been written it is gone when the call ends, on every exit path.
C1_TempFileRemovedOnEveryExit ==
    (Done /\ call.op = "create_true_pivot_with_win32com"
          /\ HasEffect("write", temp_file))
      => ~files[temp_file].exists

\* C2: in both automation operations, when the call ends an application
\* that was launched has been quit and a workbook that was opened is no
\* longer open.
C2_ResourcesReleasedOnEveryExit ==
    (Done /\ call.op \in AutomationOps)
      => /\ HasEffectOfKind("launch") => excel = "quit"
         /\ HasEffectOfKind("open") => wb # "open"

\* C3: in both automation operations, a failed automation call (from the
\* launch through SaveAs/Close) is logged as an ERROR line, then the cleanup
\* runs (the application quits, the temporary file is removed), and then that
\* same error reaches the caller; no call is made twice.
C3_FailureLoggedThenCleanupThenRaised ==
    (Done /\ call.op \in AutomationOps)
      => /\ \A i \in 1..Len(effects) :
              (/\ effects[i].e = "raise"
               /\ effects[i].arg # "Quit"
               /\ \A h \in 1..(i - 1) : effects[h].e # "raise")
              => /\ \E j \in (i + 1)..Len(effects), k \in (i + 1)..Len(effects) :
                      /\ j < k
                      /\ effects[j] = Printed("ERROR: {e}")
                      /\ effects[k] = Effect("quit", "Excel.Application")
                 /\ call.op = "create_true_pivot_with_win32com"
                      => ~files[temp_file].exists
                 /\ outcome = "raised"
                 /\ exc = ComError(effects[i].arg)
         /\ \A i, j \in 1..Len(effects) :
              (effects[i] = effects[j] /\ effects[i].e \in {"raise", "launch", "open", "write"})
                => i = j

\* C4: with WIN32COM_AVAILABLE false, each automation operation prints its
\* message and returns: it raises nothing, reads no input, launches no
\* application and leaves every file as the call found it.
C4_UnavailableShortCircuits ==
    (~WIN32COM_AVAILABLE /\ call.op \in AutomationOps)
      => /\ pc \in {"w_check", "a_check", "done"}
         /\ Done => (outcome = "returned" /\ effects = <<unavailable_message>>)
         /\ ~Done => effects = <<>>
         /\ exc = NoException
         /\ Len(df.columns) = 0
         /\ excel = "none" /\ wb = "none"
         /\ \A p \in Paths : files[p].exists = files_at_call[p].exists
         /\ files = files_at_call

\* C4's case: an unavailable bridge, a call given an input file that exists,
\* and the call over.
C4_Witness ==
    /\ ~WIN32COM_AVAILABLE
    /\ Done
    /\ call.op = "create_true_pivot_with_win32com"
    /\ call.input_file = input_path
    /\ files[input_path].exists
    /\ effects = <<unavailable_message>>

\* The aggregation function an Excel consolidation code stands for.
XlFunction(code) ==
    IF code = "xlSum" THEN "sum"
    ELSE IF code = "xlAverage" THEN "mean"
    ELSE IF code = "xlCount" THEN "count"
    ELSE code

\* What view k of a written document aggregates: its row and column fields,
\* the fields it reduces and the functions it reduces them with.
ViewKind(doc, k) ==
    LET v == doc.pivots[k]
    IN  IF doc.origin = "excel"
        THEN [rows |-> v.rows, columns |-> v.columns,
              values |-> {v.data[i][1] : i \in 1..Len(v.data)},
              aggs |-> {XlFunction(v.data[i][3]) : i \in 1..Len(v.data)}]
        ELSE [rows |-> <<v.index_name>>,
              columns |-> IF v.columns_name = "" THEN <<>> ELSE <<v.columns_name>>,
              values |-> {v.values},
              aggs |-> {v.aggfuncs[i] : i \in 1..Len(v.aggfuncs)}]

\* C5: every pipeline's output holds the same two views: the sum of Sales by
\* Region (rows) and Product (columns), and the sum, mean and count of
\* Quantity by Product.
C5_SameTwoAggregations ==
    \A p \in {output_xlsxwriter, output_openpyxl, output_win32com} :
        (files[p].exists /\ files[p].origin \in {"xlsxwriter", "openpyxl", "excel"})
          => /\ Len(files[p].pivots) = 2
             /\ ViewKind(files[p], 1) =
                  [rows |-> <<"Region">>, columns |-> <<"Product">>,
                   values |-> {"Sales"}, aggs |-> {"sum"}]
             /\ ViewKind(files[p], 2) =
                  [rows |-> <<"Product">>, columns |-> <<>>,
                   values |-> {"Quantity"}, aggs |-> {"sum", "mean", "count"}]

\* The in-process writers alone do hold the two views of C5.
C5_InProcessViews ==
    \A p \in {output_xlsxwriter, output_openpyxl} :
        (files[p].exists /\ files[p].origin \in {"xlsxwriter", "openpyxl"})
          => /\ Len(files[p].pivots) = 2
             /\ ViewKind(files[p], 1) =
                  [rows |-> <<"Region">>, columns |-> <<"Product">>,
                   values |-> {"Sales"}, aggs |-> {"sum"}]
             /\ ViewKind(files[p], 2) =
                  [rows |-> <<"Product">>, columns |-> <<>>,
                   values |-> {"Quantity"}, aggs |-> {"sum", "mean", "count"}]

\* ------------------------------------------- the sample set and its views
regions == <<"North", "South", "East", "West">>
products == <<"Product A", "Product B", "Product C", "Product D">>
sales_cycle == <<100, 150, 200, 175, 120, 180, 210, 190>>
quantity_cycle == <<10, 15, 20, 18, 12, 16, 22, 19>>

\* The i-th day (0-based, i < 100) counted from 2024-01-01, by the lengths of
\* January, February and March of 2024.
DayOf2024(i) ==
    IF i < 31 THEN <<2024, 1, i + 1>>
    ELSE IF i < 60 THEN <<2024, 2, i - 30>>
    ELSE IF i < 91 THEN <<2024, 3, i - 59>>
    ELSE <<2024, 4, i - 90>>

\* Frame f is the sample set: 100 rows of the five columns, row i (0-based)
\* holding the i-th day, regions[i mod 4], products[i mod 4] and the i mod 8
\* entries of the two cycles.
IsSampleSet(f) ==
    /\ f.columns = <<"Date", "Region", "Product", "Sales", "Quantity">>
    /\ \A k \in 1..5 : Len(f.data[f.columns[k]]) = 100
    /\ \A i \in 0..99 :
         /\ f.data.Date[i + 1] = DayOf2024(i)
         /\ f.data.Region[i + 1] = regions[(i % 4) + 1]
         /\ f.data.Product[i + 1] = products[(i % 4) + 1]
         /\ f.data.Sales[i + 1] = sales_cycle[(i % 8) + 1]
         /\ f.data.Quantity[i + 1] = quantity_cycle[(i % 8) + 1]

\* The running call works on the sample set (it was given no input file)
\* and has built it.
OnSampleData ==
    /\ call.op \in InProcessOps \cup {"create_true_pivot_with_win32com"}
    /\ call.input_file = ""
    /\ Len(df.columns) > 0

RECURSIVE SumWhereBoth(_, _, _, _, _)
\* The sum of column `of` over the first i rows whose Region is r and whose
\* Product is p.
SumWhereBoth(f, of, r, p, i) ==
    IF i = 0 THEN 0
    ELSE SumWhereBoth(f, of, r, p, i - 1)
           + (IF f.data.Region[i] = r /\ f.data.Product[i] = p
              THEN f.data[of][i] ELSE 0)

RECURSIVE SumWhereProduct(_, _, _, _)
\* The sum of column `of` over the first i rows whose Product is p.
SumWhereProduct(f, of, p, i) ==
    IF i = 0 THEN 0
    ELSE SumWhereProduct(f, of, p, i - 1)
           + (IF f.data.Product[i] = p THEN f.data[of][i] ELSE 0)

RECURSIVE CountWhereProduct(_, _, _)
\* The number of rows among the first i whose Product is p.
CountWhereProduct(f, p, i) ==
    IF i = 0 THEN 0
    ELSE CountWhereProduct(f, p, i - 1) + (IF f.data.Product[i] = p THEN 1 ELSE 0)

SetOf(seq) == {seq[k] : k \in 1..Len(seq)}

\* C6: on the 100-row sample set View A has the 4 regions as rows and the 4
\* products as columns, and each of its 16 cells is the sum of Sales over
\* the rows of that region and product: 0 where there is no such row, and
\* 2740 for North / Product A.
C6_ViewAOfSampleSet ==
    (OnSampleData /\ call.op \in InProcessOps /\ pivot1.nlevels = 1)
      => /\ NRows(df) = 100
         /\ Len(pivot1.index) = 4 /\ SetOf(pivot1.index) = SetOf(regions)
         /\ Len(pivot1.columns) = 4 /\ SetOf(pivot1.columns) = SetOf(products)
         /\ DOMAIN pivot1.cells =
              {<<r, p>> : r \in SetOf(regions), p \in SetOf(products)}
         /\ Cardinality(DOMAIN pivot1.cells) = 16
         /\ \A r \in SetOf(regions), p \in SetOf(products) :
              /\ pivot1.cells[<<r, p>>] = SumWhereBoth(df, "Sales", r, p, 100)
              /\ (\A i \in 1..100 : ~(df.data.Region[i] = r /\ df.data.Product[i] = p))
                   => pivot1.cells[<<r, p>>] = 0
         /\ pivot1.cells[<<"North", "Product A">>] = 2740

\* C6's case: the read/write editor has computed View A of the sample set.
C6_Witness ==
    /\ OnSampleData
    /\ call.op = "create_pivot_with_openpyxl"
    /\ pivot1.nlevels = 1
    /\ pivot1.cells[<<"North", "Product B">>] = 0
    /\ pivot1.cells[<<"West", "Product D">>] > 0

\* C7: on the 100-row sample set View B has 4 rows, one per product, and the
\* three columns sum, mean and count of Quantity; a product's sum and count
\* are the total and the number of its rows, its mean is sum / count, and
\* the counts add up to 100.
C7_ViewBOfSampleSet ==
    (OnSampleData /\ call.op \in InProcessOps /\ pivot2.nlevels = 2)
      => /\ Len(pivot2.index) = 4 /\ SetOf(pivot2.index) = SetOf(products)
         /\ pivot2.columns =
              << <<"sum", "Quantity">>, <<"mean", "Quantity">>, <<"count", "Quantity">> >>
         /\ \A p \in SetOf(products) :
              LET sum == pivot2.cells[<<p, <<"sum", "Quantity">>>>]
                  mean == pivot2.cells[<<p, <<"mean", "Quantity">>>>]
                  count == pivot2.cells[<<p, <<"count", "Quantity">>>>]
              IN  /\ sum = SumWhereProduct(df, "Quantity", p, 100)
                  /\ count = CountWhereProduct(df, p, 100)
                  /\ count > 0 /\ mean[2] > 0
                  /\ mean[1] * count = sum * mean[2]
         /\ pivot2.cells[<<"Product A", <<"count", "Quantity">>>>]
              + pivot2.cells[<<"Product B", <<"count", "Quantity">>>>]
              + pivot2.cells[<<"Product C", <<"count", "Quantity">>>>]
              + pivot2.cells[<<"Product D", <<"count", "Quantity">>>>] = 100

\* C7's case: the static-chart writer has computed View B of the sample set,
\* with a mean that is no whole number.
C7_Witness ==
    /\ OnSampleData
    /\ call.op = "create_pivot_with_charts"
    /\ pivot2.nlevels = 2
    /\ pivot2.cells[<<"Product A", <<"mean", "Quantity">>>>] = <<274, 25>>

\* The frame create_pivot_with_charts read lacks Sales or lacks Region.
LacksSalesOrRegion ==
    /\ call.op = "create_pivot_with_charts"
    /\ call.input_file # ""
    /\ Len(df.columns) > 0
    /\ {"Sales", "Region"} \ Cols(df) # {}

\* C8: create_pivot_with_charts on an input that lacks Sales or Region ends
\* by raising KeyError for the missing column: it computes no view, writes
\* nothing, prints no success message and never returns.
C8_MissingColumnRaises ==
    LacksSalesOrRegion
      => /\ pc \in {"x_pivot1", "done"}
         /\ pivot1.nlevels = 0 /\ pivot2.nlevels = 0
         /\ ~HasEffectOfKind("write")
         /\ ~HasEffectOfKind("print")
         /\ files = files_at_call
         /\ Done => /\ outcome = "raised"
                    /\ exc.error = "KeyError"
                    /\ exc.at \in {"Sales", "Region"} \ Cols(df)

\* C8's case: the call on an input without Region has ended.
C8_Witness ==
    /\ LacksSalesOrRegion
    /\ "Region" \notin Cols(df)
    /\ Done

\* C9: every create_sample_data returns the sample set, in each script and
\* on every call, whatever calls came before.
C9_SampleDataIsFixed ==
    /\ (Done /\ call.op = "create_sample_data") => IsSampleSet(ret)
    /\ Len(ret.columns) > 0 => IsSampleSet(ret)
    /\ OnSampleData => IsSampleSet(df)

\* C9's case: a second call, of the automation script's generator, has
\* returned.
C9_Witness ==
    /\ Done
    /\ ncalls >= 2
    /\ call.op = "create_sample_data"
    /\ call.input_file = "approach3_win32com"
    /\ NRows(ret) = 100

\* The cells of a sheet that hold a view's row labels.
LabelCells(sheet) == {p \in DOMAIN sheet : sheet[p].kind = "label"}

\* The cells of a sheet that hold the values of the view's column j (the
\* sheet column j, the index being column 0).
ValueCells(sheet, j) == {p \in DOMAIN sheet : sheet[p].kind = "value" /\ p[2] = j}

\* One series charts a sheet rightly: its categories are the label cells and
\* its values the value cells of column j.
SeriesCovers(series, sheet, j) ==
    /\ RangeCells(series.categories) = LabelCells(sheet)
    /\ RangeCells(series.values) = ValueCells(sheet, j)

\* The View A chart of a document written by the static-chart writer charts
\* its sheet rightly.
ViewAChartCovers(doc) ==
    \A col \in DOMAIN doc.charts[1].series :
        SeriesCovers(doc.charts[1].series[col], doc.cells[1], col + 1)

\* The View B bar and pie charts of such a document chart the sum of
\* Quantity rightly.
ViewBChartsCover(doc) ==
    /\ SeriesCovers(doc.charts[2].series[1], doc.cells[2], 1)
    /\ SeriesCovers(doc.charts[3].series[1], doc.cells[2], 1)

\* C10: in a file the static-chart writer wrote, every chart series'
\* categories are exactly the cells of the view's row labels and its values
\* exactly the cells of the matching numeric column, for the View A column
\* chart and for the View B bar and pie charts.
C10_ChartRangesCoverViews ==
    (files[output_xlsxwriter].exists /\ files[output_xlsxwriter].origin = "xlsxwriter")
      => /\ ViewAChartCovers(files[output_xlsxwriter])
         /\ ViewBChartsCover(files[output_xlsxwriter])

\* The View A half of C10 holds of every file the static-chart writer wrote.
C10_ViewAChartCovers ==
    (files[output_xlsxwriter].exists /\ files[output_xlsxwriter].origin = "xlsxwriter")
      => ViewAChartCovers(files[output_xlsxwriter])

\* The cells of a sheet that hold the labels of the view's columns.
HeaderCells(sheet) == {p \in DOMAIN sheet : sheet[p].kind = "header"}

\* The cells a chart's data reference covers: the title and the values of
\* each of its series.
DataCells(chart) ==
    UNION {{chart.series[c].title} \cup chart.series[c].values :
             c \in DOMAIN chart.series}

\* The View A chart of a document written by the read/write editor charts
\* its sheet rightly: the categories are the region rows, and the data
\* reference is the product header row plus every region's values.
OpenpyxlViewAChartCovers(doc) ==
    LET sheet == doc.cells[1]
        chart == doc.charts[1]
    IN  /\ chart.categories = LabelCells(sheet)
        /\ DataCells(chart) =
             HeaderCells(sheet) \cup {p \in DOMAIN sheet : sheet[p].kind = "value"}
        /\ \A c \in DOMAIN chart.series :
             chart.series[c].values = ValueCells(sheet, c)

\* The View B pie chart of such a document charts its sheet rightly: the
\* labels are the product rows and the values every product's sum of
\* Quantity (sheet column 2).
OpenpyxlViewBChartCovers(doc) ==
    LET sheet == doc.cells[2]
        chart == doc.charts[2]
    IN  /\ chart.categories = LabelCells(sheet)
        /\ DOMAIN chart.series = {2}
        /\ sheet[<<1, 2>>].v = "sum"
        /\ chart.series[2].values = ValueCells(sheet, 2)

\* C11: in a file the read/write editor wrote, given the rows appended to
\* each pivot sheet, the View A chart's categories are exactly the region
\* rows and its data exactly the product header row plus every region's
\* values, and the View B pie chart's labels are exactly the product rows
\* and its values exactly every product's sum of Quantity: no category is
\* left out and no header or index-name cell is charted.
C11_OpenpyxlChartsCoverViews ==
    (files[output_openpyxl].exists /\ files[output_openpyxl].origin = "openpyxl")
      => /\ OpenpyxlViewAChartCovers(files[output_openpyxl])
         /\ OpenpyxlViewBChartCovers(files[output_openpyxl])

\* What the two charts of such a file do cover, View A having n rows and
\* View B m: the categories start on the index-name row and stop one row
\* short of the last category, and so do the values.
C11_ChartsAreOneRowShort ==
    (files[output_openpyxl].exists /\ files[output_openpyxl].origin = "openpyxl")
      => LET doc == files[output_openpyxl]
             n == Len(doc.pivots[1].index)
             m == Len(doc.pivots[2].index)
         IN  /\ LabelCells(doc.cells[1]) = {<<r, 1>> : r \in 3..(n + 2)}
             /\ doc.cells[1][<<2, 1>>].kind = "index_name"
             /\ doc.charts[1].categories = {<<r, 1>> : r \in 2..(n + 1)}
             /\ \A c \in DOMAIN doc.charts[1].series :
                  doc.charts[1].series[c].values = {<<r, c>> : r \in 2..(n + 1)}
             /\ LabelCells(doc.cells[2]) = {<<r, 1>> : r \in 4..(m + 3)}
             /\ doc.cells[2][<<3, 1>>].kind = "index_name"
             /\ doc.charts[2].categories = {<<r, 1>> : r \in 3..(m + 2)}
             /\ doc.charts[2].series[2].values = {<<r, 2>> : r \in 3..(m + 2)}


\* ------------------------------------------------------------------ C12
\* The sum of the 4th column of a record set grouped by the distinct values
\* of its 2nd column: group value -> sum.
GroupedSum(t) ==
    LET by == t.data[t.columns[2]]
        of == t.data[t.columns[4]]
        n == NRows(t)
    IN  [k \in {by[i] : i \in 1..n} |->
           SumRows(of, {i \in 1..n : by[i] = k}, n)]

\* A one-column view as the function row label -> value.
ViewAsFunction(pv) ==
    [k \in {pv.index[i] : i \in 1..Len(pv.index)} |->
       pv.cells[<<k, pv.columns[1]>>]]

\* The last call was update_existing_excel and it returned.
UpdateReturned ==
    call.op = "update_existing_excel" /\ Done /\ outcome = "returned"

\* The call's record set is the table on sheet k of the input, the file at
\* the output path has the input's sheets and then "New Pivot", and the one
\* view it holds is the sum of the 4th column by the 2nd of that table.
UpdatedFrom(k) ==
    LET inp == files_at_call[call.input_file]
        out == files[call.output_file]
    IN  /\ df = SheetTable(inp, k)
        /\ out.exists
        /\ out.sheets = inp.sheets \o <<"New Pivot">>
        /\ Len(out.pivots) = 1
        /\ Len(out.pivots[1].columns) = 1
        /\ ViewAsFunction(out.pivots[1]) = GroupedSum(SheetTable(inp, k))

\* C12: when update_existing_excel returns, its record set is the rows of
\* the input workbook's first sheet (first row as header) whichever sheet
\* is marked active, the one view it appended as a new sheet is the sum of
\* the 4th column grouped by the 2nd column of that record set, and the
\* file at the output path has all sheets of the input plus the new one.
C12_UpdateReadsFirstSheet ==
    UpdateReturned => UpdatedFrom(1)

\* What update_existing_excel does read is the sheet marked active.
C12_UpdateReadsActiveSheet ==
    UpdateReturned => UpdatedFrom(files_at_call[call.input_file].active)


\* ------------------------------------------------------------------ C13
\* The first line the in-process writers print on success.
SuccessMessage == Printed("Excel file created successfully")

\* The call ended because loading the input or computing a view failed.
FailedBeforeWrite ==
    Done /\ outcome = "raised" /\ exc.error \in {"FileNotFoundError", "KeyError"}

\* C13: in a call of the static-chart or the read/write-editor writer, the
\* file at the output path is as the call found it for as long as either
\* view has not been computed; it is as the call found it (no file created,
\* an existing file not modified) when the call ended because loading the
\* input or computing a view failed; and the success message is printed
\* only after the write of the output file.
C13_AggregationsBeforeWrite ==
    call.op \in InProcessOps =>
      LET out == call.output_file
      IN  /\ (pivot1.nlevels = 0 \/ pivot2.nlevels = 0)
               => files[out] = files_at_call[out]
          /\ FailedBeforeWrite => files[out] = files_at_call[out]
          /\ \A i \in 1..Len(effects) :
               effects[i] = SuccessMessage
                 => /\ \E j \in 1..(i - 1) : effects[j] = Effect("write", out)
                    /\ files[out].exists

\* A call of the read/write editor over a file that was already at the
\* output path ended with KeyError from the second view, the first view
\* being computed; the file is as it was.
C13_Witness ==
    /\ call.op = "create_pivot_with_openpyxl"
    /\ FailedBeforeWrite
    /\ exc.error = "KeyError"
    /\ pivot1.nlevels = 1
    /\ pivot2.nlevels = 0
    /\ files_at_call[call.output_file].exists
    /\ files[call.output_file] = files_at_call[call.output_file]


====
